---------------------------- MODULE Spec2Model ----------------------------
(***************************************************************************)
(* A model of the ALPathfinder map preprocessor (src/src/lib.rs): the      *)
(* walkable-grid builder, the grid queries is_walkable and can_walk_path,  *)
(* and the assembly of the navigation graph by prepare / prepare_map.      *)
(*                                                                         *)
(* Conventions.                                                            *)
(*  - f32 coordinates (spawns, NPC anchors, node points) are kept in       *)
(*    half units: the integer h stands for the float h/2.                  *)
(*  - Option<T> is a sequence of length 0 (None) or 1 (Some(v)).           *)
(*  - A Vec is a sequence; Vec index i is sequence index i+1.              *)
(*  - A HashMap is a function; its iteration order is a free choice.       *)
(*  - i32 arithmetic of the query functions wraps modulo 2^32 when the     *)
(*    build has overflow checks off and panics when it has them on.        *)
(***************************************************************************)
EXTENDS Integers, Sequences, FiniteSets, Bags, TLC

(***************************************************************************)
(* Program constants                                                       *)
(***************************************************************************)
BASE_H == 8
BASE_V == 7
BASE_VN == 2
UNKNOWN == 0
NOT_WALKABLE == 1
WALKABLE == 2
TRANSPORT_RADIUS == 150
WALK == 1
TRANSPORT == 8
MaxI32 == 2147483647
MinI32 == (-MaxI32) - 1

(***************************************************************************)
(* Bounds of the model                                                     *)
(***************************************************************************)
GridW == 3
GridH == 3

(***************************************************************************)
(* Option, min/max, float truncation                                       *)
(***************************************************************************)
None == << >>
Some(v) == << v >>
IsSome(o) == Len(o) = 1
Unwrap(o) == o[1]

Max(a, b) == IF a >= b THEN a ELSE b
Min(a, b) == IF a <= b THEN a ELSE b
Abs(a) == IF a < 0 THEN -a ELSE a

\* f32::trunc() as i32 on a half-unit value: rounds toward zero.
Trunc(h) == IF h >= 0 THEN h \div 2 ELSE -((-h) \div 2)

\* An integer as an f32 (exact for the magnitudes of the model).
ToF32(i) == 2 * i

(***************************************************************************)
(* i32 arithmetic.  Each operation returns the wrapped value; the matching *)
(* Ovf predicate says whether the exact result left the i32 range.         *)
(***************************************************************************)
AddOvf(a, b) ==
    \/ a > 0 /\ b > 0 /\ a > MaxI32 - b
    \/ a < 0 /\ b < 0 /\ a < MinI32 - b

Add32(a, b) ==
    IF a > 0 /\ b > 0 /\ a > MaxI32 - b THEN ((a - MaxI32) + (b - MaxI32)) - 2
    ELSE IF a < 0 /\ b < 0 /\ a < MinI32 - b THEN ((a + MaxI32) + (b + MaxI32)) + 2
    ELSE a + b

SubOvf(a, b) ==
    \/ a >= 0 /\ b < 0 /\ a > MaxI32 + b
    \/ a < 0 /\ b > 0 /\ a < MinI32 + b

Sub32(a, b) ==
    IF a >= 0 /\ b < 0 /\ a > MaxI32 + b THEN ((a - MaxI32) - (b + MaxI32)) - 2
    ELSE IF a < 0 /\ b > 0 /\ a < MinI32 + b THEN ((a + MaxI32) - (b - MaxI32)) + 2
    ELSE a - b

NegOvf(a) == a = MinI32
Neg32(a) == IF a = MinI32 THEN MinI32 ELSE -a

\* a * n for a small n >= 0, by repeated addition.
RECURSIVE Mul32(_, _)
Mul32(a, n) == IF n = 0 THEN 0 ELSE Add32(Mul32(a, n - 1), a)

RECURSIVE MulOvf(_, _)
MulOvf(a, n) ==
    IF n = 0 THEN FALSE
    ELSE MulOvf(a, n - 1) \/ AddOvf(Mul32(a, n - 1), a)


(***************************************************************************)
(* prepare_walkable_vec: the tri-state scratch grid of one map.            *)
(* A scratch grid is a sequence of width*height cells, row-major.          *)
(* Indexing a Vec outside 0..len-1 panics (a negative i32 cast to usize is *)
(* far beyond any length).                                                 *)
(***************************************************************************)
InVec(walkable, i) == 0 <= i /\ i < Len(walkable)
At(walkable, i) == walkable[i + 1]
SetAt(walkable, i, v) == [walkable EXCEPT ![i + 1] = v]

\* The nested loops "for y in y_from..y_to { for x in x_from..x_to {..} }".
Paint(walkable, width, x_from, x_to, y_from, y_to) ==
    [i \in DOMAIN walkable |->
        IF \E y \in y_from .. (y_to - 1), x \in x_from .. (x_to - 1) :
               y * width + x = i - 1
        THEN NOT_WALKABLE
        ELSE walkable[i]]

\* PaintYLine with the upward padding used downward as well.
PaintYLine_ShortBelow(walkable, geometry, width, height, y_line) ==
    LET y_from == Max(0, y_line[1] - geometry.min_y - BASE_VN)
        y_to == Min(height, y_line[1] - geometry.min_y + BASE_VN)
        x_from == Max(0, y_line[2] - geometry.min_x - BASE_H)
        x_to == Min(width, y_line[3] - geometry.min_x + BASE_H)
    IN  Paint(walkable, width, x_from, x_to, y_from, y_to)

PaintYLine(walkable, geometry, width, height, y_line) ==
    LET y_from == Max(0, y_line[1] - geometry.min_y - BASE_VN)
        y_to == Min(height, y_line[1] - geometry.min_y + BASE_V)
        x_from == Max(0, y_line[2] - geometry.min_x - BASE_H)
        x_to == Min(width, y_line[3] - geometry.min_x + BASE_H)
    IN  Paint(walkable, width, x_from, x_to, y_from, y_to)

PaintXLine(walkable, geometry, width, height, x_line) ==
    LET x_from == Max(0, x_line[1] - geometry.min_x - BASE_H)
        x_to == Min(width, x_line[1] - geometry.min_x + BASE_H)
        y_from == Max(0, x_line[2] - geometry.min_y - BASE_VN)
        y_to == Min(height, x_line[3] - geometry.min_y + BASE_V)
    IN  Paint(walkable, width, x_from, x_to, y_from, y_to)

RECURSIVE PaintYLines(_, _, _, _, _, _)
PaintYLines(walkable, geometry, width, height, v, k) ==
    IF k > Len(v) THEN walkable
    ELSE PaintYLines(PaintYLine(walkable, geometry, width, height, v[k]),
                     geometry, width, height, v, k + 1)

RECURSIVE PaintXLines(_, _, _, _, _, _)
PaintXLines(walkable, geometry, width, height, v, k) ==
    IF k > Len(v) THEN walkable
    ELSE PaintXLines(PaintXLine(walkable, geometry, width, height, v[k]),
                     geometry, width, height, v, k + 1)

\* Both "match &geometry.*_lines" blocks, y-lines first.
PaintWalls(geometry, width, height) ==
    LET w0 == [i \in 1 .. (width * height) |-> UNKNOWN]
        w1 == IF IsSome(geometry.y_lines)
              THEN PaintYLines(w0, geometry, width, height, Unwrap(geometry.y_lines), 1)
              ELSE w0
    IN  IF IsSome(geometry.x_lines)
        THEN PaintXLines(w1, geometry, width, height, Unwrap(geometry.x_lines), 1)
        ELSE w1

\* "while x >= 0 && walkable[y*width+x] == UNKNOWN { x -= 1 }"
RECURSIVE ScanLeft(_, _, _, _)
ScanLeft(walkable, width, y, x) ==
    IF x >= 0
    THEN IF ~InVec(walkable, y * width + x) THEN [panic |-> TRUE, x |-> x]
         ELSE IF At(walkable, y * width + x) = UNKNOWN
              THEN ScanLeft(walkable, width, y, x - 1)
              ELSE [panic |-> FALSE, x |-> x]
    ELSE [panic |-> FALSE, x |-> x]

\* One pass of the "if !span && .. == UNKNOWN {push} else if span && .. != UNKNOWN"
\* pair for the row ny next to the span; ok says whether a neighbour row exists.
SpanStep(walkable, stack, width, ny, x, ok, span) ==
    IF ~ok THEN [panic |-> FALSE, stack |-> stack, span |-> span]
    ELSE IF ~InVec(walkable, ny * width + x)
    THEN [panic |-> TRUE, stack |-> stack, span |-> span]
    ELSE IF ~span /\ At(walkable, ny * width + x) = UNKNOWN
    THEN [panic |-> FALSE, stack |-> Append(stack, <<ny, x>>), span |-> TRUE]
    ELSE IF span /\ At(walkable, ny * width + x) # UNKNOWN
    THEN [panic |-> FALSE, stack |-> stack, span |-> FALSE]
    ELSE [panic |-> FALSE, stack |-> stack, span |-> span]

\* "while x < width && walkable[y*width+x] == UNKNOWN { .. x += 1 }"
RECURSIVE ScanRight(_, _, _, _, _, _, _, _)
ScanRight(walkable, stack, width, height, y, x, span_above, span_below) ==
    IF ~(x < width) THEN [panic |-> FALSE, walkable |-> walkable, stack |-> stack]
    ELSE IF ~InVec(walkable, y * width + x)
    THEN [panic |-> TRUE, walkable |-> walkable, stack |-> stack]
    ELSE IF At(walkable, y * width + x) # UNKNOWN
    THEN [panic |-> FALSE, walkable |-> walkable, stack |-> stack]
    ELSE LET w1 == SetAt(walkable, y * width + x, WALKABLE)
             a == SpanStep(w1, stack, width, y - 1, x, y > 0, span_above)
             b == SpanStep(w1, a.stack, width, y + 1, x, y < height - 1, span_below)
         IN  IF a.panic \/ b.panic
             THEN [panic |-> TRUE, walkable |-> w1, stack |-> stack]
             ELSE ScanRight(w1, b.stack, width, height, y, x + 1, a.span, b.span)

\* "while stack.len() > 0 { let (y, mut x) = stack.pop().unwrap(); .. }"
RECURSIVE Fill(_, _, _, _)

\* Fill without the "x += 1" between the two scans.
Fill_NoStepBack(walkable, stack, width, height) ==
    IF Len(stack) = 0 THEN [panic |-> FALSE, walkable |-> walkable]
    ELSE LET top == stack[Len(stack)]
             rest == SubSeq(stack, 1, Len(stack) - 1)
             l == ScanLeft(walkable, width, top[1], top[2])
         IN  IF l.panic THEN [panic |-> TRUE, walkable |-> walkable]
             ELSE LET r == ScanRight(walkable, rest, width, height,
                                     top[1], l.x, FALSE, FALSE)
                  IN  IF r.panic THEN [panic |-> TRUE, walkable |-> r.walkable]
                      ELSE Fill(r.walkable, r.stack, width, height)

Fill(walkable, stack, width, height) ==
    IF Len(stack) = 0 THEN [panic |-> FALSE, walkable |-> walkable]
    ELSE LET top == stack[Len(stack)]
             rest == SubSeq(stack, 1, Len(stack) - 1)
             l == ScanLeft(walkable, width, top[1], top[2])
         IN  IF l.panic THEN [panic |-> TRUE, walkable |-> walkable]
             ELSE LET r == ScanRight(walkable, rest, width, height,
                                     top[1], l.x + 1, FALSE, FALSE)
                  IN  IF r.panic THEN [panic |-> TRUE, walkable |-> r.walkable]
                      ELSE Fill(r.walkable, r.stack, width, height)

\* The cell a spawn seeds: (trunc(spawn.x) - min_x, trunc(spawn.y) - min_y).
SpawnCellX(spawn, geometry) == Trunc(spawn.x) - geometry.min_x
SpawnCellY(spawn, geometry) == Trunc(spawn.y) - geometry.min_y

\* "for spawn in &map.spawns { .. }"
RECURSIVE FillSpawns(_, _, _, _, _, _)
FillSpawns(walkable, spawns, geometry, width, height, k) ==
    IF k > Len(spawns) THEN [panic |-> FALSE, walkable |-> walkable]
    ELSE LET x == SpawnCellX(spawns[k], geometry)
             y == SpawnCellY(spawns[k], geometry)
         IN  IF ~InVec(walkable, y * width + x)
             THEN [panic |-> TRUE, walkable |-> walkable]
             ELSE IF At(walkable, y * width + x) = WALKABLE
             THEN FillSpawns(walkable, spawns, geometry, width, height, k + 1)
             ELSE LET f == Fill(walkable, << <<y, x>> >>, width, height)
                  IN  IF f.panic THEN f
                      ELSE FillSpawns(f.walkable, spawns, geometry, width, height, k + 1)

prepare_walkable_vec(map, geometry, width, height) ==
    FillSpawns(PaintWalls(geometry, width, height), map.spawns, geometry,
               width, height, 1)

(***************************************************************************)
(* Grid queries.  A Grid is [width, min_x, min_y, data]; data is the       *)
(* BitVec, a sequence of booleans.  A query returns Ret(b), or Panicked    *)
(* when an i32 operation overflows in a build with overflow checks         *)
(* (checks = TRUE); with checks = FALSE the operation wraps.               *)
(***************************************************************************)
Ret(b) == [panic |-> FALSE, value |-> b]
Panicked == [panic |-> TRUE, value |-> FALSE]

\* An i32 result with its overflow flag.
I32(v, ovf) == [v |-> v, ovf |-> ovf]

\* "y * grid.width + x"
IdxYX(grid, y, x) ==
    I32(Add32(Mul32(y, grid.width), x),
        MulOvf(y, grid.width) \/ AddOvf(Mul32(y, grid.width), x))

\* "(y - y_step) * grid.width + x"
IdxBackY(grid, y, y_step, x) ==
    LET i == IdxYX(grid, Sub32(y, y_step), x)
    IN  I32(i.v, SubOvf(y, y_step) \/ i.ovf)

\* "y * grid.width + x - x_step"
IdxBackX(grid, y, x, x_step) ==
    LET i == IdxYX(grid, y, x)
    IN  I32(Sub32(i.v, x_step), i.ovf \/ SubOvf(i.v, x_step))

\* "grid.data.get(i as usize).unwrap_or(false)": a negative i32 becomes a
\* usize beyond the length, and get() outside the length is None.
BitGet(grid, i) == 0 <= i /\ i < Len(grid.data) /\ grid.data[i + 1]

\* The tests "if !grid.data.get(..).unwrap_or(false) { return false; }" for the
\* index expressions idxs, in order: Ret(TRUE) when all pass.
RECURSIVE TestCells(_, _, _, _)
TestCells(grid, idxs, k, checks) ==
    IF k > Len(idxs) THEN Ret(TRUE)
    ELSE IF checks /\ idxs[k].ovf THEN Panicked
    ELSE IF ~BitGet(grid, idxs[k].v) THEN Ret(FALSE)
    ELSE TestCells(grid, idxs, k + 1, checks)

is_walkable_grid(grid, x_i, y_i, checks) ==
    LET x == Sub32(x_i, grid.min_x)
        y == Sub32(y_i, grid.min_y)
    IN  IF checks /\ (SubOvf(x_i, grid.min_x) \/ SubOvf(y_i, grid.min_y))
        THEN Panicked
        ELSE IF x < 0 \/ y < 0 THEN Ret(FALSE)
        ELSE TestCells(grid, << IdxYX(grid, y, x) >>, 1, checks)

is_walkable(grids, map_name, x_i, y_i, checks) ==
    IF map_name \notin DOMAIN grids THEN Ret(FALSE)
    ELSE is_walkable_grid(grids[map_name], x_i, y_i, checks)

\* The "if ddx >= ddy" loop: c holds dx, ddx, ddy, x_step, y_step.
RECURSIVE WalkMajorX(_, _, _, _, _, _, _, _)
WalkMajorX(grid, c, x, y, error, error_prev, i, checks) ==
    IF ~(i < c.dx) THEN Ret(TRUE)
    ELSE
    LET x1 == Add32(x, c.x_step)
        e1 == Add32(error, c.ddy)
        step == e1 > c.ddx
        y1 == IF step THEN Add32(y, c.y_step) ELSE y
        e2 == IF step THEN Sub32(e1, c.ddx) ELSE e1
        s == Add32(e2, error_prev)
        ovf == \/ AddOvf(x, c.x_step)
               \/ AddOvf(error, c.ddy)
               \/ step /\ ( \/ AddOvf(y, c.y_step)
                            \/ SubOvf(e1, c.ddx)
                            \/ AddOvf(e2, error_prev) )
        extra == IF ~step THEN << >>
                 ELSE IF s < c.ddx THEN << IdxBackY(grid, y1, c.y_step, x1) >>
                 ELSE IF s > c.ddx THEN << IdxBackX(grid, y1, x1, c.x_step) >>
                 ELSE << IdxBackY(grid, y1, c.y_step, x1),
                         IdxBackX(grid, y1, x1, c.x_step) >>
        t == TestCells(grid, extra \o << IdxYX(grid, y1, x1) >>, 1, checks)
    IN  IF checks /\ ovf THEN Panicked
        ELSE IF t.panic \/ ~t.value THEN t
        ELSE WalkMajorX(grid, c, x1, y1, e2, e2, i + 1, checks)

\* The else loop: c holds dy, ddx, ddy, x_step, y_step.
RECURSIVE WalkMajorY(_, _, _, _, _, _, _, _)
WalkMajorY(grid, c, x, y, error, error_prev, i, checks) ==
    IF ~(i < c.dy) THEN Ret(TRUE)
    ELSE
    LET y1 == Add32(y, c.y_step)
        e1 == Add32(error, c.ddx)
        step == e1 > c.ddy
        x1 == IF step THEN Add32(x, c.x_step) ELSE x
        e2 == IF step THEN Sub32(e1, c.ddy) ELSE e1
        s == Add32(e2, error_prev)
        ovf == \/ AddOvf(y, c.y_step)
               \/ AddOvf(error, c.ddx)
               \/ step /\ ( \/ AddOvf(x, c.x_step)
                            \/ SubOvf(e1, c.ddy)
                            \/ AddOvf(e2, error_prev) )
        extra == IF ~step THEN << >>
                 ELSE IF s < c.ddy THEN << IdxBackX(grid, y1, x1, c.x_step) >>
                 ELSE IF s > c.ddy THEN << IdxBackY(grid, y1, c.y_step, x1) >>
                 ELSE << IdxBackX(grid, y1, x1, c.x_step),
                         IdxBackY(grid, y1, c.y_step, x1) >>
        t == TestCells(grid, extra \o << IdxYX(grid, y1, x1) >>, 1, checks)
    IN  IF checks /\ ovf THEN Panicked
        ELSE IF t.panic \/ ~t.value THEN t
        ELSE WalkMajorY(grid, c, x1, y1, e2, e2, i + 1, checks)

can_walk_path_grid(grid, x1, y1, x2, y2, checks) ==
    LET x == Sub32(x1, grid.min_x)
        y == Sub32(y1, grid.min_y)
        dx0 == Sub32(x2, x1)
        dy0 == Sub32(y2, y1)
        ovf0 == \/ SubOvf(x1, grid.min_x) \/ SubOvf(y1, grid.min_y)
                \/ SubOvf(x2, x1) \/ SubOvf(y2, y1)
        start == TestCells(grid, << IdxYX(grid, y, x) >>, 1, checks)
        y_step == IF dy0 < 0 THEN -1 ELSE 1
        dy == IF dy0 < 0 THEN Neg32(dy0) ELSE dy0
        x_step == IF dx0 < 0 THEN -1 ELSE 1
        dx == IF dx0 < 0 THEN Neg32(dx0) ELSE dx0
        ddy == Add32(dy, dy)
        ddx == Add32(dx, dx)
        ovf1 == \/ dy0 < 0 /\ NegOvf(dy0)
                \/ dx0 < 0 /\ NegOvf(dx0)
                \/ AddOvf(dy, dy) \/ AddOvf(dx, dx)
        c == [dx |-> dx, dy |-> dy, ddx |-> ddx, ddy |-> ddy,
              x_step |-> x_step, y_step |-> y_step]
    IN  IF checks /\ ovf0 THEN Panicked
        ELSE IF start.panic \/ ~start.value THEN start
        ELSE IF checks /\ ovf1 THEN Panicked
        ELSE IF ddx >= ddy
             THEN WalkMajorX(grid, c, x, y, dx, dx, 0, checks)
             ELSE WalkMajorY(grid, c, x, y, dy, dy, 0, checks)

can_walk_path(grids, map_name, x1, y1, x2, y2, checks) ==
    IF map_name \notin DOMAIN grids THEN Ret(FALSE)
    ELSE can_walk_path_grid(grids[map_name], x1, y1, x2, y2, checks)

(***************************************************************************)
(* The corner detector's pattern bytes and u8 bit-or.                      *)
(***************************************************************************)
INSIDE_1 == 47
INSIDE_1_IGNORE == 36
INSIDE_2 == 151
INSIDE_2_IGNORE == 129
INSIDE_3 == 244
INSIDE_3_IGNORE == 36
INSIDE_4 == 233
INSIDE_4_IGNORE == 129
OUTSIDE_1 == 127
OUTSIDE_2 == 223
OUTSIDE_3 == 251
OUTSIDE_4 == 254

RECURSIVE Pow2(_)
Pow2(k) == IF k = 0 THEN 1 ELSE 2 * Pow2(k - 1)

Bit(v, k) == (v \div Pow2(k)) % 2

RECURSIVE BitOrFrom(_, _, _)
BitOrFrom(a, b, k) ==
    IF k > 7 THEN 0
    ELSE Max(Bit(a, k), Bit(b, k)) * Pow2(k) + BitOrFrom(a, b, k + 1)

\* a | b on u8
BitOr(a, b) == BitOrFrom(a, b, 0)

\* "(cell == WALKABLE) as u8"
AsU8(b) == IF b THEN 1 ELSE 0

\* The 8-neighbour mask of interior cell (x, y) of the scratch grid.
CornerMask(walkable, width, x, y) ==
    LET row_above == (y - 1) * width
        row_current == y * width
        row_below == (y + 1) * width
        u_l == At(walkable, row_above + x - 1)
        u_c == At(walkable, row_above + x)
        u_r == At(walkable, row_above + x + 1)
        m_l == At(walkable, row_current + x - 1)
        m_r == At(walkable, row_current + x + 1)
        b_l == At(walkable, row_below + x - 1)
        b_c == At(walkable, row_below + x)
        b_r == At(walkable, row_below + x + 1)
    IN  AsU8(u_l = WALKABLE)
        + AsU8(u_c = WALKABLE) * 2
        + AsU8(u_r = WALKABLE) * 4
        + AsU8(m_l = WALKABLE) * 8
        + AsU8(m_r = WALKABLE) * 16
        + AsU8(b_l = WALKABLE) * 32
        + AsU8(b_c = WALKABLE) * 64
        + AsU8(b_r = WALKABLE) * 128

\* The test with the don't-care bits left out: an INSIDE pattern is matched
\* only by its exact byte.
MaskIsCorner_NoIgnore(mask) ==
    mask \in {INSIDE_1, INSIDE_2, INSIDE_3, INSIDE_4,
              OUTSIDE_1, OUTSIDE_2, OUTSIDE_3, OUTSIDE_4}

MaskIsCorner(mask) ==
    \/ BitOr(mask, INSIDE_1_IGNORE) = INSIDE_1
    \/ BitOr(mask, INSIDE_2_IGNORE) = INSIDE_2
    \/ BitOr(mask, INSIDE_3_IGNORE) = INSIDE_3
    \/ BitOr(mask, INSIDE_4_IGNORE) = INSIDE_4
    \/ mask = OUTSIDE_1
    \/ mask = OUTSIDE_2
    \/ mask = OUTSIDE_3
    \/ mask = OUTSIDE_4

IsCorner(walkable, width, x, y) ==
    /\ At(walkable, y * width + x) = WALKABLE
    /\ MaskIsCorner(CornerMask(walkable, width, x, y))

\* The cells the double loop "for y in 1..(height-1) { for x in 1..(width-1)"
\* emits, in loop order, as <<x, y>> pairs starting at cell index k.
RECURSIVE CornersFrom(_, _, _, _)
CornersFrom(walkable, width, height, k) ==
    IF k >= width * height THEN << >>
    ELSE LET x == k % width
             y == k \div width
             inner == 1 <= y /\ y < height - 1 /\ 1 <= x /\ x < width - 1
         IN  (IF inner /\ IsCorner(walkable, width, x, y) THEN << <<x, y>> >> ELSE << >>)
             \o CornersFrom(walkable, width, height, k + 1)

Corners(walkable, width, height) == CornersFrom(walkable, width, height, 0)

(***************************************************************************)
(* The process-wide stores, as one record st:                              *)
(*   GRIDS        map name -> Grid                                         *)
(*   MAP_INDICES  map name -> map id                                       *)
(*   MAP_NAMES    the names, by map id                                     *)
(*   nodes, edges the GRAPH: node weights by NodeIndex (0-based) and the   *)
(*                bag of edges [from, to, method]                          *)
(*   NODE_MAP     Node -> NodeIndex                                        *)
(* A Node is [map_id, x, y] with x, y in half units.                       *)
(***************************************************************************)
EmptyStores ==
    [GRIDS |-> << >>, MAP_INDICES |-> << >>, MAP_NAMES |-> << >>,
     nodes |-> << >>, edges |-> EmptyBag, NODE_MAP |-> << >>]

MkNode(map_id, x, y) == [map_id |-> map_id, x |-> x, y |-> y]

\* The stores after get_or_add_node(node); the index is NodeIndexOf.
get_or_add_node(st, node) ==
    IF node \in DOMAIN st.NODE_MAP THEN st
    ELSE [st EXCEPT !.nodes = Append(st.nodes, node),
                    !.NODE_MAP = (node :> Len(st.nodes)) @@ st.NODE_MAP]

NodeIndexOf(st, node) == st.NODE_MAP[node]

\* The stores after get_or_create_map_id(map_name); the id is MapIdOf.
get_or_create_map_id(st, map_name) ==
    IF map_name \in DOMAIN st.MAP_INDICES THEN st
    ELSE [st EXCEPT !.MAP_NAMES = Append(st.MAP_NAMES, map_name),
                    !.MAP_INDICES = (map_name :> Len(st.MAP_NAMES)) @@ st.MAP_INDICES]

MapIdOf(st, map_name) == st.MAP_INDICES[map_name]

\* graph.add_edge(from, to, Edge { method })
add_edge(st, from, to, method) ==
    [st EXCEPT !.edges =
        st.edges (+) SetToBag({[from |-> from, to |-> to, method |-> method]})]

(***************************************************************************)
(* The Delaunay triangulation of one map (the spade crate): its vertices   *)
(* are a sequence of Nodes in insertion order, one per position.           *)
(***************************************************************************)
SamePoint(a, b) == a.x = b.x /\ a.y = b.y

\* insert(): a vertex at an occupied position replaces the data there.
TriInsert(tri, node) ==
    IF \E i \in 1 .. Len(tri) : SamePoint(tri[i], node)
    THEN [i \in 1 .. Len(tri) |-> IF SamePoint(tri[i], node) THEN node ELSE tri[i]]
    ELSE Append(tri, node)

\* get_vertices_in_circle(center, radius_2): the vertices whose squared
\* distance to the center is at most radius_2 (coordinates in half units).
VerticesInCircle(tri, x, y, radius_2) ==
    SelectSeq(tri, LAMBDA v :
        (v.x - x) * (v.x - x) + (v.y - y) * (v.y - y) <= 4 * radius_2)

Cross(p, q, r) == (q.x - p.x) * (r.y - p.y) - (q.y - p.y) * (r.x - p.x)

\* r lies on the open segment pq
Between(p, q, r) ==
    /\ Cross(p, q, r) = 0
    /\ ~SamePoint(p, r) /\ ~SamePoint(q, r)
    /\ Min(p.x, q.x) <= r.x /\ r.x <= Max(p.x, q.x)
    /\ Min(p.y, q.y) <= r.y /\ r.y <= Max(p.y, q.y)

\* The in-circle determinant of d against the circle through a, b, c
\* (positive: d is inside, when a, b, c turn counter-clockwise).
InCircleDet(a, b, c, d) ==
    LET ax == a.x - d.x
        ay == a.y - d.y
        bx == b.x - d.x
        by == b.y - d.y
        cx == c.x - d.x
        cy == c.y - d.y
        a2 == ax * ax + ay * ay
        b2 == bx * bx + by * by
        c2 == cx * cx + cy * cy
    IN  ax * (by * c2 - b2 * cy) - ay * (bx * c2 - b2 * cx) + a2 * (bx * cy - by * cx)

\* Whether vertices i < j of tri are joined by a Delaunay edge: no vertex on
\* the open segment, and no vertex pair on opposite sides with one inside the
\* circle through the other three; of two crossing diagonals of a co-circular
\* quadrilateral the one with the earliest-inserted vertex is kept.
DelaunayEdge(tri, i, j) ==
    LET p == tri[i]
        q == tri[j]
        n == Len(tri)
    IN  /\ \A k \in 1 .. n : ~Between(p, q, tri[k])
        /\ \A k \in 1 .. n, l \in 1 .. n :
             (Cross(p, q, tri[k]) > 0 /\ Cross(p, q, tri[l]) < 0) =>
                LET det == InCircleDet(p, q, tri[k], tri[l])
                IN  det < 0 \/ (det = 0 /\ Min(i, j) < Min(k, l))

\* undirected_edges(): the pairs <<i, j>>, i < j.
UndirectedEdges(tri) ==
    {e \in (1 .. Len(tri)) \X (1 .. Len(tri)) :
        e[1] < e[2] /\ DelaunayEdge(tri, e[1], e[2])}

(***************************************************************************)
(* prepare_map.  Its passes thread a context c = [st, tri, panic]: the     *)
(* stores, the map's triangulation, and whether the call has panicked (an  *)
(* unwrap() of None or an index out of range).  A panic keeps the stores   *)
(* as written so far.                                                      *)
(***************************************************************************)
Ctx(st, tri, panic) == [st |-> st, tri |-> tri, panic |-> panic]

\* "let handle = triangulation.insert(node); get_or_add_node(vertex.data())"
InsertVertex(c, node) ==
    Ctx(get_or_add_node(c.st, node), TriInsert(c.tri, node), c.panic)

\* "Add nodes at corners"
RECURSIVE AddCorners(_, _, _, _, _)
AddCorners(c, corners, geometry, map_id, k) ==
    IF k > Len(corners) THEN c
    ELSE AddCorners(
            InsertVertex(c, MkNode(map_id,
                                   ToF32(corners[k][1] + geometry.min_x),
                                   ToF32(corners[k][2] + geometry.min_y))),
            corners, geometry, map_id, k + 1)

\* "Add nodes at spawn points"
RECURSIVE AddSpawns(_, _, _, _)
AddSpawns(c, spawns, map_id, k) ==
    IF k > Len(spawns) THEN c
    ELSE AddSpawns(InsertVertex(c, MkNode(map_id, spawns[k].x, spawns[k].y)),
                   spawns, map_id, k + 1)

\* "Make list of transporter destination nodes": places is the catalog's
\* HashMap, order the order its iteration visits the keys in.  The result is
\* [c, dests]; dests is the Vec<NodeIndex>.
RECURSIVE DestinationNodes(_, _, _, _, _, _, _)

\* DestinationNodes without "Can't transport to same map".
DestinationNodes_SameMap(c, g, map_name, places, order, k, dests) ==
    IF k > Len(order) THEN [c |-> c, dests |-> dests]
    ELSE LET destination_map_name == order[k]
             destination_spawn_index == places[destination_map_name]
             st1 == get_or_create_map_id(c.st, destination_map_name)
         IN  IF destination_map_name \notin DOMAIN g.maps
             THEN [c |-> Ctx(st1, c.tri, TRUE), dests |-> dests]
             ELSE IF ~(destination_spawn_index
                         < Len(g.maps[destination_map_name].spawns))
             THEN [c |-> Ctx(st1, c.tri, TRUE), dests |-> dests]
             ELSE LET destination_spawn ==
                          g.maps[destination_map_name].spawns[
                              destination_spawn_index + 1]
                      destination_node ==
                          MkNode(MapIdOf(st1, destination_map_name),
                                 destination_spawn.x, destination_spawn.y)
                      st2 == get_or_add_node(st1, destination_node)
                  IN  DestinationNodes(
                          Ctx(st2, c.tri, c.panic), g, map_name, places,
                          order, k + 1,
                          Append(dests, NodeIndexOf(st2, destination_node)))

DestinationNodes(c, g, map_name, places, order, k, dests) ==
    IF k > Len(order) THEN [c |-> c, dests |-> dests]
    ELSE LET destination_map_name == order[k]
             destination_spawn_index == places[destination_map_name]
         IN  IF destination_map_name = map_name
             THEN DestinationNodes(c, g, map_name, places, order, k + 1, dests)
             ELSE LET st1 == get_or_create_map_id(c.st, destination_map_name)
                      c1 == Ctx(st1, c.tri, c.panic)
                  IN  IF destination_map_name \notin DOMAIN g.maps
                      THEN [c |-> Ctx(st1, c.tri, TRUE), dests |-> dests]
                      ELSE IF ~(destination_spawn_index
                                  < Len(g.maps[destination_map_name].spawns))
                      THEN [c |-> Ctx(st1, c.tri, TRUE), dests |-> dests]
                      ELSE LET destination_spawn ==
                                   g.maps[destination_map_name].spawns[
                                       destination_spawn_index + 1]
                               destination_node ==
                                   MkNode(MapIdOf(st1, destination_map_name),
                                          destination_spawn.x, destination_spawn.y)
                               st2 == get_or_add_node(st1, destination_node)
                           IN  DestinationNodes(
                                   Ctx(st2, c.tri, c.panic), g, map_name, places,
                                   order, k + 1,
                                   Append(dests, NodeIndexOf(st2, destination_node)))

\* "for destination_node in &destination_nodes { graph.add_edge(..) }"
RECURSIVE AddTransportEdges(_, _, _, _)
AddTransportEdges(st, n_index, dests, k) ==
    IF k > Len(dests) THEN st
    ELSE AddTransportEdges(add_edge(st, n_index, dests[k], TRANSPORT),
                           n_index, dests, k + 1)

\* "for n in nearby { let n_index = get_or_add_node(&n.data()); .. }"
RECURSIVE LinkNearby(_, _, _, _)
LinkNearby(st, nearby, dests, k) ==
    IF k > Len(nearby) THEN st
    ELSE LET st1 == get_or_add_node(st, nearby[k])
         IN  LinkNearby(AddTransportEdges(st1, NodeIndexOf(st1, nearby[k]), dests, 1),
                        nearby, dests, k + 1)

\* One anchor <<x, y>> of a transporter: insert it, link the vertices nearby.
LinkAnchor(c, map_id, pos, dests) ==
    LET tri1 == TriInsert(c.tri, MkNode(map_id, pos[1], pos[2]))
        nearby == VerticesInCircle(tri1, pos[1], pos[2], TRANSPORT_RADIUS)
    IN  Ctx(LinkNearby(c.st, nearby, dests, 1), tri1, c.panic)

\* "for p in positions { .. }"
RECURSIVE LinkAnchors(_, _, _, _, _)
LinkAnchors(c, map_id, positions, dests, k) ==
    IF k > Len(positions) THEN c
    ELSE LinkAnchors(LinkAnchor(c, map_id, positions[k], dests),
                     map_id, positions, dests, k + 1)

\* The body of "for npc in map.npcs.as_ref().unwrap()" for one npc.
TransporterNpc(c, g, map_name, map_id, npc, order) ==
    IF npc.id # "transporter" THEN c
    ELSE IF "transporter" \notin DOMAIN g.npcs THEN Ctx(c.st, c.tri, TRUE)
    ELSE IF ~IsSome(g.npcs["transporter"].places) THEN Ctx(c.st, c.tri, TRUE)
    ELSE LET places == Unwrap(g.npcs["transporter"].places)
             d == DestinationNodes(c, g, map_name, places, order, 1, << >>)
         IN  IF d.c.panic THEN d.c
             ELSE LET c1 == IF IsSome(npc.position)
                            THEN LinkAnchor(d.c, map_id, Unwrap(npc.position), d.dests)
                            ELSE d.c
                  IN  IF IsSome(npc.positions)
                      THEN LinkAnchors(c1, map_id, Unwrap(npc.positions), d.dests, 1)
                      ELSE c1

\* "Add nodes for transporters"
RECURSIVE AddTransporters(_, _, _, _, _, _, _)
AddTransporters(c, g, map_name, map_id, npcs, order, k) ==
    IF c.panic \/ k > Len(npcs) THEN c
    ELSE AddTransporters(TransporterNpc(c, g, map_name, map_id, npcs[k], order),
                         g, map_name, map_id, npcs, order, k + 1)

\* The WALK edges of one triangulation edge <<i, j>>.
WalkEdge(st, tri, map_name, e) ==
    LET p1_data == tri[e[1]]
        p2_data == tri[e[2]]
    IN  IF ~can_walk_path(st.GRIDS, map_name,
                          Trunc(p1_data.x), Trunc(p1_data.y),
                          Trunc(p2_data.x), Trunc(p2_data.y), FALSE).value
        THEN st
        ELSE LET st1 == get_or_add_node(get_or_add_node(st, p1_data), p2_data)
                 p1_index == NodeIndexOf(st1, p1_data)
                 p2_index == NodeIndexOf(st1, p2_data)
             IN  add_edge(add_edge(st1, p1_index, p2_index, WALK),
                          p2_index, p1_index, WALK)

\* "for edge in triangulation.undirected_edges() { .. }"
RECURSIVE AddWalkEdges(_, _, _, _)
AddWalkEdges(st, tri, map_name, es) ==
    IF es = {} THEN st
    ELSE LET e == CHOOSE e \in es : TRUE
         IN  AddWalkEdges(WalkEdge(st, tri, map_name, e), tri, map_name, es \ {e})

MkGrid(geometry, width, walkable) ==
    [width |-> width, min_x |-> geometry.min_x, min_y |-> geometry.min_y,
     data |-> [i \in DOMAIN walkable |-> walkable[i] = WALKABLE]]

\* prepare_map(g, map_name): the stores afterwards, with the panic flag.
\* order is the iteration order of the transporter catalog's places.
prepare_map(st, g, map_name, order) ==
    IF map_name \notin DOMAIN g.geometry THEN Ctx(st, << >>, TRUE)
    ELSE
    LET map == g.maps[map_name]
        geometry == g.geometry[map_name]
        width == geometry.max_x - geometry.min_x
        height == geometry.max_y - geometry.min_y
        w == prepare_walkable_vec(map, geometry, width, height)
    IN  IF w.panic THEN Ctx(st, << >>, TRUE)
        ELSE
        LET st1 == [st EXCEPT !.GRIDS =
                       (map_name :> MkGrid(geometry, width, w.walkable)) @@ st.GRIDS]
            st2 == get_or_create_map_id(st1, map_name)
            map_id == MapIdOf(st2, map_name)
            c1 == AddCorners(Ctx(st2, << >>, FALSE),
                             Corners(w.walkable, width, height), geometry, map_id, 1)
            c2 == AddSpawns(c1, map.spawns, map_id, 1)
        IN  IF ~IsSome(map.npcs) THEN Ctx(c2.st, c2.tri, TRUE)
            ELSE
            LET c3 == AddTransporters(c2, g, map_name, map_id, Unwrap(map.npcs), order, 1)
            IN  IF c3.panic THEN c3
                ELSE Ctx(AddWalkEdges(c3.st, c3.tri, map_name, UndirectedEdges(c3.tri)),
                         c3.tri, FALSE)

(***************************************************************************)
(* The worlds prepare is given.  Two maps, "A" and "B", each GridW x GridH *)
(* cells; "A" varies in its walls, spawns and npcs, "B" in its ignore      *)
(* field and npcs; the transporter catalog varies in its places.           *)
(***************************************************************************)
MapNames == {"A", "B"}

BoxA == [min_x |-> -1, max_x |-> GridW - 1, min_y |-> 1, max_y |-> GridH + 1]
BoxB == [min_x |-> 2, max_x |-> GridW + 2, min_y |-> -2, max_y |-> GridH - 2]

\* The y_line whose padded envelope is rows [r0, r0 + 9), columns [c0, c1).
YLineOver(box, r0, c0, c1) ==
    << box.min_y + r0 + BASE_VN, box.min_x + c0 + BASE_H, box.min_x + c1 - BASE_H >>

\* The x_line whose padded envelope is columns [c0, c0 + 16), rows [r0, r1).
XLineOver(box, c0, r0, r1) ==
    << box.min_x + c0 + BASE_H, box.min_y + r0 + BASE_VN, box.min_y + r1 - BASE_V >>

Lines(y_lines, x_lines) == [y_lines |-> y_lines, x_lines |-> x_lines]

\* No wall; the top-left cell; the bottom row; the right column's two top
\* cells; both corners; column 1 over the full height (a reversed segment).
WallChoices(box) ==
    LET w == box.max_x - box.min_x
        h == box.max_y - box.min_y
        corner == YLineOver(box, -8, -15, 1)
        bottom == YLineOver(box, h - 1, 0, 16)
        right == XLineOver(box, w - 1, -7, 2)
        column == YLineOver(box, -4, 1, 2)
    IN  { Lines(None, None),
          Lines(Some(<< corner >>), None),
          Lines(Some(<< bottom >>), Some(<< >>)),
          Lines(None, Some(<< right >>)),
          Lines(Some(<< corner >>), Some(<< right >>)),
          Lines(Some(<< column >>), None) }

MkGeometry(box, lines) ==
    [min_x |-> box.min_x, max_x |-> box.max_x,
     min_y |-> box.min_y, max_y |-> box.max_y,
     x_lines |-> lines.x_lines, y_lines |-> lines.y_lines]

\* The spawn at cell (cx, cy) of the box, plus fx/2, fy/2.
SpawnAt(box, cx, cy, fx, fy) ==
    [x |-> 2 * (box.min_x + cx) + fx, y |-> 2 * (box.min_y + cy) + fy]

\* The middle; the top-left cell; the two bottom corners; x = -0.5; the
\* cell left of row 1; the cell right of the last row.
SpawnChoices(box) ==
    LET w == box.max_x - box.min_x
        h == box.max_y - box.min_y
    IN  { << SpawnAt(box, 1, 1, 1, 1) >>,
          << SpawnAt(box, 0, 0, 0, 0) >>,
          << SpawnAt(box, 0, h - 1, 0, 1), SpawnAt(box, w - 1, h - 1, 1, 0) >>,
          << [x |-> -1, y |-> 2 * (box.min_y + 1)] >>,
          << SpawnAt(box, -1, 1, 0, 0) >>,
          << SpawnAt(box, w, h - 1, 0, 0) >> }

Npc(id, position, positions) ==
    [id |-> id, position |-> position, positions |-> positions]

\* A transporter anchored 11 cells left of the box, beside its second row:
\* cell (1, 1) is at squared distance 144 from it, the point (1.5, 1.5) at 156.5.
TransporterAt(box) ==
    Npc("transporter", Some(<< 2 * (box.min_x - 11), 2 * (box.min_y + 1) >>), None)

\* A transporter with two anchors in the top row.
TransporterAtTwo(box) ==
    Npc("transporter", None,
        Some(<< << 2 * box.min_x + 1, 2 * box.min_y >>,
                << 2 * (box.max_x - 1), 2 * box.min_y + 1 >> >>))

NpcChoices(box) ==
    { None,
      Some(<< >>),
      Some(<< TransporterAt(box) >>),
      Some(<< Npc("citizen0", Some(<< 0, 0 >>), None), TransporterAtTwo(box) >>) }

\* The npc catalog: no transporter entry; an entry without places; places
\* that name "B" (spawn 0 exists, spawn 7 does not), "Z" (no such map), or
\* both maps.
CatalogChoices ==
    { << >>,
      [transporter |-> [places |-> None]],
      [transporter |-> [places |-> Some([B |-> 0])]],
      [transporter |-> [places |-> Some([B |-> 7])]],
      [transporter |-> [places |-> Some([Z |-> 0])]],
      [transporter |-> [places |-> Some([A |-> 0, B |-> 0])]] }

MkMap(name, ignore, spawns, npcs) ==
    [doors |-> << >>, ignore |-> ignore, name |-> name, npcs |-> npcs,
     spawns |-> spawns]

MkWorld(linesA, spawnsA, npcsA, ignoreB, npcsB, catalog) ==
    [geometry |-> [A |-> MkGeometry(BoxA, linesA),
                   B |-> MkGeometry(BoxB, Lines(None, None))],
     maps |-> [A |-> MkMap("A", None, spawnsA, npcsA),
               B |-> MkMap("B", ignoreB, << SpawnAt(BoxB, 1, 1, 0, 0) >>, npcsB)],
     npcs |-> catalog]

\* Every grid shape and spawn placement of "A" beside a plain "B" (its ignore
\* absent or true), and every npc and catalog arrangement on one grid of "A"
\* (the ignore of "B" absent or false).
Worlds ==
    { MkWorld(l, s, Some(<< >>), i, Some(<< >>), << >>) :
        l \in WallChoices(BoxA), s \in SpawnChoices(BoxA), i \in {None, Some(TRUE)} }
    \cup
    { MkWorld(Lines(Some(<< YLineOver(BoxA, -8, -15, 1) >>), None),
              << SpawnAt(BoxA, 1, 1, 1, 1) >>, n, None, m, c) :
        n \in NpcChoices(BoxA),
        m \in { Some(<< >>), Some(<< TransporterAt(BoxB) >>) },
        c \in CatalogChoices }
    \cup
    { MkWorld(Lines(Some(<< YLineOver(BoxA, -8, -15, 1) >>), None),
              << SpawnAt(BoxA, 1, 1, 1, 1) >>, n, Some(FALSE), Some(<< >>), c) :
        n \in NpcChoices(BoxA), c \in CatalogChoices }

(***************************************************************************)
(* The state machine: one prepare call on a world g, then queries.         *)
(***************************************************************************)
VARIABLES
    g,            \* the world handed to prepare (GData)
    pc,           \* "idle", then "done" (prepare returned) or "panicked"
    GRIDS,        \* map name -> Grid
    MAP_INDICES,  \* map name -> map id
    MAP_NAMES,    \* map names by id
    GRAPH,        \* [nodes, edges]
    NODE_MAP,     \* Node -> NodeIndex
    q             \* the last query and what it returned

vars == << g, pc, GRIDS, MAP_INDICES, MAP_NAMES, GRAPH, NODE_MAP, q >>

Stores ==
    [GRIDS |-> GRIDS, MAP_INDICES |-> MAP_INDICES, MAP_NAMES |-> MAP_NAMES,
     nodes |-> GRAPH.nodes, edges |-> GRAPH.edges, NODE_MAP |-> NODE_MAP]

\* The orders a HashMap with key set S may iterate in.
Perms(S) ==
    {f \in [1 .. Cardinality(S) -> S] : \A a \in S : \E i \in DOMAIN f : f[i] = a}

\* The keys of the transporter catalog's places, when it has any.
PlacesKeys(world) ==
    IF "transporter" \in DOMAIN world.npcs /\ IsSome(world.npcs["transporter"].places)
    THEN DOMAIN Unwrap(world.npcs["transporter"].places)
    ELSE {}

\* The loop of prepare over g.maps in the order map_order, from its k-th map:
\* the stores afterwards, and whether a prepare_map panicked.
RECURSIVE PrepareLoop(_, _, _, _, _)

\* PrepareLoop skipping only the maps whose ignore is Some(true).
PrepareLoop_IgnoreTrue(st, world, map_order, places_order, k) ==
    IF k > Len(map_order) THEN [st |-> st, panic |-> FALSE]
    ELSE IF world.maps[map_order[k]].ignore = Some(TRUE)
    THEN PrepareLoop(st, world, map_order, places_order, k + 1)
    ELSE CHOOSE r \in
             { IF c.panic THEN [st |-> c.st, panic |-> TRUE]
               ELSE PrepareLoop(c.st, world, map_order, places_order, k + 1) :
               c \in { prepare_map(st, world, map_order[k], places_order) } } : TRUE

\* (c ranges over the one result of prepare_map, so that the next iteration
\* starts from the stores as a value.)
PrepareLoop(st, world, map_order, places_order, k) ==
    IF k > Len(map_order) THEN [st |-> st, panic |-> FALSE]
    ELSE IF IsSome(world.maps[map_order[k]].ignore)
    THEN PrepareLoop(st, world, map_order, places_order, k + 1)
    ELSE CHOOSE r \in
             { IF c.panic THEN [st |-> c.st, panic |-> TRUE]
               ELSE PrepareLoop(c.st, world, map_order, places_order, k + 1) :
               c \in { prepare_map(st, world, map_order[k], places_order) } } : TRUE

NoQuery ==
    [kind |-> "none", map |-> "", x1 |-> 0, y1 |-> 0, x2 |-> 0, y2 |-> 0,
     checks |-> FALSE, ret |-> Ret(FALSE)]

Init ==
    /\ g \in Worlds
    /\ pc = "idle"
    /\ GRIDS = << >>
    /\ MAP_INDICES = << >>
    /\ MAP_NAMES = << >>
    /\ GRAPH = [nodes |-> << >>, edges |-> EmptyBag]
    /\ NODE_MAP = << >>
    /\ q = NoQuery

\* prepare(g): the maps and the catalog's places are visited in some order.
Prepare ==
    /\ pc = "idle"
    /\ \E map_order \in Perms(DOMAIN g.maps), places_order \in Perms(PlacesKeys(g)) :
         \E r \in { PrepareLoop(Stores, g, map_order, places_order, 1) } :
             /\ pc' = IF r.panic THEN "panicked" ELSE "done"
             /\ GRIDS' = r.st.GRIDS
             /\ MAP_INDICES' = r.st.MAP_INDICES
             /\ MAP_NAMES' = r.st.MAP_NAMES
             /\ GRAPH' = [nodes |-> r.st.nodes, edges |-> r.st.edges]
             /\ NODE_MAP' = r.st.NODE_MAP
    /\ UNCHANGED << g, q >>

\* The points queried on a map: the cells of its box, the cells one step
\* outside each of its four sides, and one point at the least i32 on the x axis.
QueryNames == MapNames \cup {"Z"}
QueryBox(m) == IF m = "B" THEN BoxB ELSE BoxA
QueryPoints(m) ==
    LET b == QueryBox(m)
    IN  { p \in (b.min_x - 1 .. b.max_x) \X (b.min_y - 1 .. b.max_y) :
              \/ b.min_x <= p[1] /\ p[1] < b.max_x
              \/ b.min_y <= p[2] /\ p[2] < b.max_y }
        \cup { << MinI32, b.min_y >> }

\* is_walkable(map_name, x_i, y_i), in a build with or without overflow checks
IsWalkable ==
    /\ pc \in {"done", "panicked"}
    /\ q.kind = "none"
    /\ \E m \in QueryNames : \E p \in QueryPoints(m), checks \in BOOLEAN :
         LET r == is_walkable(GRIDS, m, p[1], p[2], checks)
         IN  q' = [kind |-> "is_walkable", map |-> m, x1 |-> p[1], y1 |-> p[2],
                   x2 |-> p[1], y2 |-> p[2], checks |-> checks /\ r.panic, ret |-> r]
    /\ UNCHANGED << g, pc, GRIDS, MAP_INDICES, MAP_NAMES, GRAPH, NODE_MAP >>

\* can_walk_path(map_name, x1, y1, x2, y2)
CanWalkPath ==
    /\ pc \in {"done", "panicked"}
    /\ q.kind = "none"
    /\ \E m \in MapNames : \E a \in QueryPoints(m), b \in QueryPoints(m),
                              checks \in BOOLEAN :
         LET r == can_walk_path(GRIDS, m, a[1], a[2], b[1], b[2], checks)
         IN  q' = [kind |-> "can_walk_path", map |-> m, x1 |-> a[1], y1 |-> a[2],
                   x2 |-> b[1], y2 |-> b[2], checks |-> checks /\ r.panic, ret |-> r]
    /\ UNCHANGED << g, pc, GRIDS, MAP_INDICES, MAP_NAMES, GRAPH, NODE_MAP >>

Next == Prepare \/ IsWalkable \/ CanWalkPath

Spec == Init /\ [][Next]_vars

(***************************************************************************)
(* Vocabulary of the properties                                            *)
(***************************************************************************)
Ignored(m) == IsSome(g.maps[m].ignore)
Prepared(m) == m \in DOMAIN GRIDS

\* World point (x, y) lies in the bounding box of map m.
InBox(m, x, y) ==
    /\ g.geometry[m].min_x <= x /\ x < g.geometry[m].max_x
    /\ g.geometry[m].min_y <= y /\ y < g.geometry[m].max_y

\* The bit of the in-box world point (x, y) in the grid of m.
CellBit(m, x, y) ==
    GRIDS[m].data[(y - g.geometry[m].min_y) * GRIDS[m].width
                  + (x - g.geometry[m].min_x) + 1]

\* World point (x, y) lies in the padded envelope of a wall segment of m.
InYEnvelope(m, l, x, y) ==
    LET cx == x - g.geometry[m].min_x
        cy == y - g.geometry[m].min_y
    IN  /\ l[1] - g.geometry[m].min_y - 2 <= cy /\ cy < l[1] - g.geometry[m].min_y + 7
        /\ l[2] - g.geometry[m].min_x - 8 <= cx /\ cx < l[3] - g.geometry[m].min_x + 8

InXEnvelope(m, l, x, y) ==
    LET cx == x - g.geometry[m].min_x
        cy == y - g.geometry[m].min_y
    IN  /\ l[1] - g.geometry[m].min_x - 8 <= cx /\ cx < l[1] - g.geometry[m].min_x + 8
        /\ l[2] - g.geometry[m].min_y - 2 <= cy /\ cy < l[3] - g.geometry[m].min_y + 7

InEnvelope(m, x, y) ==
    \/ /\ IsSome(g.geometry[m].y_lines)
       /\ \E k \in DOMAIN Unwrap(g.geometry[m].y_lines) :
            InYEnvelope(m, Unwrap(g.geometry[m].y_lines)[k], x, y)
    \/ /\ IsSome(g.geometry[m].x_lines)
       /\ \E k \in DOMAIN Unwrap(g.geometry[m].x_lines) :
            InXEnvelope(m, Unwrap(g.geometry[m].x_lines)[k], x, y)

SpawnsOf(m) == {g.maps[m].spawns[k] : k \in DOMAIN g.maps[m].spawns}

SpawnInBox(m, s) == InBox(m, Trunc(s.x), Trunc(s.y))

\* The cells of the supercover of the segment (x1, y1)-(x2, y2): the unit
\* squares, centred on the integer points, that the segment meets.
SuperCover(x1, y1, x2, y2) ==
    {c \in (Min(x1, x2) .. Max(x1, x2)) \X (Min(y1, y2) .. Max(y1, y2)) :
        2 * Abs((x2 - x1) * (c[2] - y1) - (y2 - y1) * (c[1] - x1))
            <= Abs(x2 - x1) + Abs(y2 - y1)}

HasTransporter(m) ==
    /\ IsSome(g.maps[m].npcs)
    /\ \E k \in DOMAIN Unwrap(g.maps[m].npcs) :
         Unwrap(g.maps[m].npcs)[k].id = "transporter"

(***************************************************************************)
(* C1.  Spawn cells are walkable.                                          *)
(***************************************************************************)
\* C1 as claimed: after prepare completes, is_walkable is true at the
\* truncated position of every spawn of every non-ignored map, also when a
\* wall's padded envelope covers the spawn cell.  (Stated for the worlds whose
\* spawns all lie inside their boxes; a spawn outside its box is C7's case.)
C1_SpawnsWalkable ==
    (/\ pc = "done"
     /\ \A m \in DOMAIN g.maps : \A s \in SpawnsOf(m) : SpawnInBox(m, s))
    => \A m \in DOMAIN g.maps : ~Ignored(m) =>
           \A s \in SpawnsOf(m) :
               is_walkable(GRIDS, m, Trunc(s.x), Trunc(s.y), FALSE) = Ret(TRUE)

\* C1 (amended): after prepare completes, is_walkable is true at the truncated
\* position of every spawn of every non-ignored map whose cell lies inside the
\* map's bounding box and outside every wall segment's padded envelope.
C1_FreeSpawnsWalkable ==
    pc = "done" =>
        \A m \in DOMAIN g.maps : ~Ignored(m) =>
            \A s \in SpawnsOf(m) :
                (SpawnInBox(m, s) /\ ~InEnvelope(m, Trunc(s.x), Trunc(s.y))) =>
                    \A checks \in BOOLEAN :
                        is_walkable(GRIDS, m, Trunc(s.x), Trunc(s.y), checks) = Ret(TRUE)

\* A completed prepare of a map with walls and a spawn on a free cell with a
\* fractional, negative x.
C1_Witness ==
    /\ pc = "done"
    /\ IsSome(g.geometry["A"].y_lines)
    /\ \E s \in SpawnsOf("A") :
         /\ s.x = -1
         /\ SpawnInBox("A", s)
         /\ ~InEnvelope("A", Trunc(s.x), Trunc(s.y))

(***************************************************************************)
(* C2.  Wall envelopes are not walkable.                                   *)
(***************************************************************************)
\* C2: is_walkable is false at every in-grid cell inside the padded envelope of
\* a wall segment of a prepared map; the flood fill from the spawns does not
\* make a painted cell walkable.
C2_EnvelopeNotWalkable ==
    (/\ q.kind = "is_walkable"
     /\ q.map \in DOMAIN g.maps
     /\ Prepared(q.map)
     /\ InBox(q.map, q.x1, q.y1)
     /\ InEnvelope(q.map, q.x1, q.y1))
    => q.ret = Ret(FALSE)

\* A query inside an envelope, on a prepared map whose flood fill reached the
\* cell next to it.
C2_Witness ==
    /\ q.kind = "is_walkable"
    /\ q.map = "A"
    /\ pc = "done"
    /\ Prepared("A")
    /\ InBox("A", q.x1, q.y1)
    /\ InEnvelope("A", q.x1, q.y1)
    /\ InBox("A", q.x1 + 1, q.y1)
    /\ CellBit("A", q.x1 + 1, q.y1)

(***************************************************************************)
(* C3.  A walkable path covers only walkable cells of the grid.            *)
(***************************************************************************)
\* C3: whenever can_walk_path returns true, every cell of the supercover of the
\* segment, the two end cells included, is inside the grid and walkable.
C3_PathCellsWalkable ==
    (q.kind = "can_walk_path" /\ q.ret = Ret(TRUE)) =>
        /\ InBox(q.map, q.x1, q.y1)
        /\ InBox(q.map, q.x2, q.y2)
        /\ \A c \in SuperCover(q.x1, q.y1, q.x2, q.y2) :
             InBox(q.map, c[1], c[2]) /\ CellBit(q.map, c[1], c[2])

(***************************************************************************)
(* C4.  Queries outside the grid are false.                                *)
(***************************************************************************)
\* C4: is_walkable returns false for every point whose translated cell is
\* negative or not below the width or height, and for every map with no grid.
C4_OutsideIsFalse ==
    (/\ q.kind = "is_walkable"
     /\ \/ q.map \notin DOMAIN GRIDS
        \/ ~InBox(q.map, q.x1, q.y1))
    => q.ret = Ret(FALSE)

(***************************************************************************)
(* C5.  A path from a point to itself is the point's walkability.          *)
(***************************************************************************)
\* C5: can_walk_path(m, p, p) returns what is_walkable(m, p) returns, for every
\* integer point p, inside or outside the box.
C5_PointPath ==
    (q.kind = "can_walk_path" /\ q.x1 = q.x2 /\ q.y1 = q.y2) =>
        q.ret = is_walkable(GRIDS, q.map, q.x1, q.y1, q.checks)

(***************************************************************************)
(* C6.  can_walk_path is symmetric.                                        *)
(***************************************************************************)
\* C6: can_walk_path(m, a, b) returns what can_walk_path(m, b, a) returns, for
\* all integer points a and b.
C6_Symmetric ==
    q.kind = "can_walk_path" =>
        q.ret = can_walk_path(GRIDS, q.map, q.x2, q.y2, q.x1, q.y1, q.checks)

(***************************************************************************)
(* C7.  A spawn outside the box fails prepare and commits nothing.         *)
(***************************************************************************)
\* C7: if a non-ignored map has a spawn whose cell lies outside the map's
\* bounding box, prepare fails and the grid registry holds no grid.
C7_OutsideSpawnFails ==
    (/\ pc # "idle"
     /\ \E m \in DOMAIN g.maps :
          ~Ignored(m) /\ \E s \in SpawnsOf(m) : ~SpawnInBox(m, s))
    => (pc = "panicked" /\ DOMAIN GRIDS = {})

(***************************************************************************)
(* C8.  Bad transporter destinations are skipped.                          *)
(***************************************************************************)
\* The world is sound but for the destinations of the transporter catalog:
\* every non-ignored map has its npcs and its spawns inside its box, and the
\* catalog has places.
SoundButDestinations ==
    /\ \A m \in DOMAIN g.maps : ~Ignored(m) =>
         /\ m \in DOMAIN g.geometry
         /\ IsSome(g.maps[m].npcs)
         /\ \A s \in SpawnsOf(m) : SpawnInBox(m, s)
    /\ "transporter" \in DOMAIN g.npcs
    /\ IsSome(g.npcs["transporter"].places)

\* C8: when the catalog names a destination map that is not in maps, or a spawn
\* index the destination map does not have, prepare still completes and installs
\* the grid of every non-ignored map.
C8_BadDestinationSkipped ==
    (pc # "idle" /\ SoundButDestinations) =>
        /\ pc = "done"
        /\ \A m \in DOMAIN g.maps : ~Ignored(m) => Prepared(m)

(***************************************************************************)
(* C9.  Ignored maps have no grid.                                         *)
(***************************************************************************)
\* C9: a map whose ignore field is present, true or false, never has a grid,
\* and both queries return false on it; after prepare completes the maps with
\* a grid are exactly the maps whose ignore field is absent.
C9_IgnoredHaveNoGrid ==
    /\ \A m \in DOMAIN g.maps : Ignored(m) => ~Prepared(m)
    /\ (q.kind # "none" /\ q.map \in DOMAIN g.maps /\ Ignored(q.map))
           => q.ret = Ret(FALSE)
    /\ pc = "done" => DOMAIN GRIDS = {m \in DOMAIN g.maps : ~Ignored(m)}

\* A path query, after a completed prepare, on a map whose ignore is Some(false).
C9_Witness ==
    /\ pc = "done"
    /\ g.maps["B"].ignore = Some(FALSE)
    /\ Prepared("A")
    /\ q.kind = "can_walk_path"
    /\ q.map = "B"
    /\ InBox("B", q.x1, q.y1)

(***************************************************************************)
(* C10.  TRANSPORT edges leave a transporter's map for another map.        *)
(***************************************************************************)
TransportEdges == {e \in BagToSet(GRAPH.edges) : e.method = TRANSPORT}

NodeAt(i) == GRAPH.nodes[i + 1]
MapOfNode(n) == MAP_NAMES[n.map_id + 1]

\* The transporters of map m, and their anchors <<x, y>>.
TransportersOf(m) ==
    IF ~IsSome(g.maps[m].npcs) THEN {}
    ELSE {n \in {Unwrap(g.maps[m].npcs)[k] : k \in DOMAIN Unwrap(g.maps[m].npcs)} :
             n.id = "transporter"}

AnchorsOf(n) ==
    (IF IsSome(n.position) THEN {Unwrap(n.position)} ELSE {})
    \cup (IF IsSome(n.positions)
          THEN {Unwrap(n.positions)[k] : k \in DOMAIN Unwrap(n.positions)}
          ELSE {})

Anchors(m) == UNION {AnchorsOf(n) : n \in TransportersOf(m)}

\* Node n is the spawn the catalog nominates on map d.
NominatedSpawn(n, d) ==
    /\ d \in PlacesKeys(g)
    /\ d \in DOMAIN g.maps
    /\ LET i == Unwrap(g.npcs["transporter"].places)[d]
       IN  /\ i < Len(g.maps[d].spawns)
           /\ n.x = g.maps[d].spawns[i + 1].x
           /\ n.y = g.maps[d].spawns[i + 1].y

\* C10: every TRANSPORT edge goes from a node of one map to a node of another
\* map; its source lies on a map that has a transporter, within distance 150 of
\* one of that map's transporter anchors, and its destination is the spawn the
\* catalog nominates on the destination map.
C10_TransportLeavesMap ==
    \A e \in TransportEdges :
        LET src == NodeAt(e.from)
            dst == NodeAt(e.to)
        IN  /\ src.map_id # dst.map_id
            /\ MapOfNode(src) # MapOfNode(dst)
            /\ MapOfNode(src) \in DOMAIN g.maps
            /\ HasTransporter(MapOfNode(src))
            /\ \E a \in Anchors(MapOfNode(src)) :
                 (src.x - a[1]) * (src.x - a[1]) + (src.y - a[2]) * (src.y - a[2])
                     <= 4 * 150 * 150
            /\ NominatedSpawn(dst, MapOfNode(dst))

\* A completed prepare where "A" has a transporter, "B" has none, the catalog
\* names both maps, a TRANSPORT edge runs from "A" to "B", and some node of "A"
\* is too far from the anchor to be the source of one.
C10_Witness ==
    /\ pc = "done"
    /\ HasTransporter("A")
    /\ ~HasTransporter("B")
    /\ PlacesKeys(g) = {"A", "B"}
    /\ \E e \in TransportEdges :
         MapOfNode(NodeAt(e.from)) = "A" /\ MapOfNode(NodeAt(e.to)) = "B"
    /\ \E i \in 0 .. Len(GRAPH.nodes) - 1 :
         /\ MapOfNode(NodeAt(i)) = "A"
         /\ \A e \in TransportEdges : e.from # i

(***************************************************************************)
(* C11.  The result of prepare does not depend on the order of the maps.   *)
(***************************************************************************)
\* A node and an edge of the stores st by map name instead of map id and
\* node index; the node set and the edge bag in those terms.
NamedNode(st, n) == [map |-> st.MAP_NAMES[n.map_id + 1], x |-> n.x, y |-> n.y]

NamedNodes(st) == {NamedNode(st, st.nodes[i]) : i \in DOMAIN st.nodes}

NamedEdge(st, e) ==
    [from |-> NamedNode(st, st.nodes[e.from + 1]),
     to |-> NamedNode(st, st.nodes[e.to + 1]),
     method |-> e.method]

NamedEdges(st) == BagOfAll(LAMBDA e : NamedEdge(st, e), st.edges)

SameResult(s, t) ==
    /\ s.GRIDS = t.GRIDS
    /\ NamedNodes(s) = NamedNodes(t)
    /\ NamedEdges(s) = NamedEdges(t)

\* C11: whatever order prepare visited the maps (and the catalog's places) in,
\* every other order leaves the same grids, the same named nodes and the same
\* bag of labelled edges between them.
C11_OrderIndependent ==
    (pc # "idle" /\ q.kind = "none") =>
        \A map_order \in Perms(DOMAIN g.maps), places_order \in Perms(PlacesKeys(g)) :
            \A r \in { PrepareLoop(EmptyStores, g, map_order, places_order, 1) } :
                SameResult(r.st, Stores)

(***************************************************************************)
(* C12.  The flood fill marks the region joined to the spawns' cells.      *)
(***************************************************************************)
\* Cells are indices 0 .. width*height - 1, row-major.  Two cells are adjacent
\* when they are next to each other in a row or in a column.
Adjacent(i, j, width) ==
    \/ j = i + width
    \/ j = i - width
    \/ j = i + 1 /\ i \div width = j \div width
    \/ j = i - 1 /\ i \div width = j \div width

\* The cells of `free` joined to a cell of S by a path of adjacent cells of `free`.
RECURSIVE Grow(_, _, _)
Grow(S, free, width) ==
    LET T == S \cup {j \in free : \E i \in S : Adjacent(i, j, width)}
    IN  IF T = S THEN S ELSE Grow(T, free, width)

\* The unpainted cells of map m, and the in-grid cells its spawns seed.
Unpainted(m) ==
    LET geo == g.geometry[m]
        width == geo.max_x - geo.min_x
        height == geo.max_y - geo.min_y
        painted == PaintWalls(geo, width, height)
    IN  {i \in 0 .. width * height - 1 : At(painted, i) # NOT_WALKABLE}

SeedCells(m) ==
    {SpawnCellY(s, g.geometry[m]) * (g.geometry[m].max_x - g.geometry[m].min_x)
         + SpawnCellX(s, g.geometry[m]) : s \in {t \in SpawnsOf(m) : SpawnInBox(m, t)}}

Region(m) ==
    Grow(SeedCells(m) \cap Unpainted(m), Unpainted(m),
         g.geometry[m].max_x - g.geometry[m].min_x)

\* C12: in the grid of a prepared map a cell is walkable exactly when it is
\* unpainted and joined to the cell of one of the map's spawns by a path of
\* adjacent unpainted cells; a region with no spawn in it is not walkable.
\* (Stated for the worlds whose spawns all lie inside their boxes; a spawn
\* outside its box is C7's case.)
C12_FillIsRegion ==
    (/\ q.kind = "none"
     /\ \A m \in DOMAIN g.maps : \A s \in SpawnsOf(m) : SpawnInBox(m, s))
    => \A m \in DOMAIN g.maps : Prepared(m) =>
           \A i \in 0 .. Len(GRIDS[m].data) - 1 :
               GRIDS[m].data[i + 1] <=> i \in Region(m)

(***************************************************************************)
(* The corner detector on every pattern of painted border cells: one map,  *)
(* "A", whose border cells are painted in every combination, with a spawn  *)
(* on each corner cell and one at (1.5, 1.5) inside.                       *)
(***************************************************************************)
AllCells(w, h) == [k \in 1 .. w * h |-> << (k - 1) % w, (k - 1) \div w >>]

\* The wall segments whose padded envelopes, clipped to the grid, are the
\* cells of P: a y_line per cell of the top and bottom rows, an x_line per
\* other cell of the left and right columns.
BorderLines(box, P) ==
    LET w == box.max_x - box.min_x
        h == box.max_y - box.min_y
        ys == SelectSeq(AllCells(w, h),
                        LAMBDA c : c \in P /\ (c[2] = 0 \/ c[2] = h - 1))
        xs == SelectSeq(AllCells(w, h),
                        LAMBDA c : c \in P /\ c[2] # 0 /\ c[2] # h - 1
                                          /\ (c[1] = 0 \/ c[1] = w - 1))
    IN  Lines(Some([k \in DOMAIN ys |->
                       YLineOver(box, IF ys[k][2] = 0 THEN -8 ELSE h - 1,
                                 ys[k][1], ys[k][1] + 1)]),
              Some([k \in DOMAIN xs |->
                       XLineOver(box, IF xs[k][1] = 0 THEN -15 ELSE w - 1,
                                 xs[k][2], xs[k][2] + 1)]))

BorderCells(box) ==
    LET w == box.max_x - box.min_x
        h == box.max_y - box.min_y
    IN  {c \in (0 .. w - 1) \X (0 .. h - 1) :
            c[1] = 0 \/ c[1] = w - 1 \/ c[2] = 0 \/ c[2] = h - 1}

CornerSpawns(box) ==
    LET w == box.max_x - box.min_x
        h == box.max_y - box.min_y
    IN  << SpawnAt(box, 1, 1, 1, 1),
           SpawnAt(box, 0, 0, 0, 0), SpawnAt(box, w - 1, 0, 0, 0),
           SpawnAt(box, 0, h - 1, 0, 0), SpawnAt(box, w - 1, h - 1, 0, 0) >>

CornerWorlds ==
    { [geometry |-> [A |-> MkGeometry(BoxA, BorderLines(BoxA, P))],
       maps |-> [A |-> MkMap("A", None, CornerSpawns(BoxA), Some(<< >>))],
       npcs |-> << >>] : P \in SUBSET BorderCells(BoxA) }

InitCorners ==
    /\ g \in CornerWorlds
    /\ pc = "idle"
    /\ GRIDS = << >>
    /\ MAP_INDICES = << >>
    /\ MAP_NAMES = << >>
    /\ GRAPH = [nodes |-> << >>, edges |-> EmptyBag]
    /\ NODE_MAP = << >>
    /\ q = NoQuery

SpecCorners == InitCorners /\ [][Prepare]_vars

(***************************************************************************)
(* C13.  The corner detector.                                              *)
(***************************************************************************)
\* The mask of cell (x, y) of the grid of m as the set of the positions
\* 0 .. 7 (upper-left, upper-center, upper-right, middle-left, middle-right,
\* lower-left, lower-center, lower-right) whose neighbour is walkable.
NeighbourAt(k) ==
    << <<-1, -1>>, <<0, -1>>, <<1, -1>>, <<-1, 0>>, <<1, 0>>,
       <<-1, 1>>, <<0, 1>>, <<1, 1>> >>[k + 1]

CellWalkable(m, x, y) == GRIDS[m].data[y * GRIDS[m].width + x + 1]

MaskBits(m, x, y) ==
    {k \in 0 .. 7 : CellWalkable(m, x + NeighbourAt(k)[1], y + NeighbourAt(k)[2])}

BitsOf(v) == {k \in 0 .. 7 : (v \div (2 ^ k)) % 2 = 1}

\* "(mask | IGNORE_k) == INSIDE_k for some k in 1..4, or mask is an OUTSIDE byte"
PatternMatches(bits) ==
    \/ bits \cup BitsOf(INSIDE_1_IGNORE) = BitsOf(INSIDE_1)
    \/ bits \cup BitsOf(INSIDE_2_IGNORE) = BitsOf(INSIDE_2)
    \/ bits \cup BitsOf(INSIDE_3_IGNORE) = BitsOf(INSIDE_3)
    \/ bits \cup BitsOf(INSIDE_4_IGNORE) = BitsOf(INSIDE_4)
    \/ bits \in {BitsOf(OUTSIDE_1), BitsOf(OUTSIDE_2),
                  BitsOf(OUTSIDE_3), BitsOf(OUTSIDE_4)}

\* A graph node of map m sits on cell (x, y).
NodeOnCell(m, x, y) ==
    \E i \in DOMAIN GRAPH.nodes :
        /\ MapOfNode(GRAPH.nodes[i]) = m
        /\ GRAPH.nodes[i].x = ToF32(x + GRIDS[m].min_x)
        /\ GRAPH.nodes[i].y = ToF32(y + GRIDS[m].min_y)

SpawnOnCell(m, x, y) ==
    \E s \in SpawnsOf(m) :
        s.x = ToF32(x + GRIDS[m].min_x) /\ s.y = ToF32(y + GRIDS[m].min_y)

\* C13: after prepare, a waypoint sits on a cell that holds no spawn exactly
\* when the cell is walkable, lies strictly inside the grid and its mask
\* matches a pattern; a walkable inner cell whose only non-walkable neighbour
\* is the upper-left one has a waypoint, and one whose eight neighbours are
\* all walkable has none.
C13_CornerIffPattern ==
    (pc = "done" /\ Prepared("A")) =>
        LET w == GRIDS["A"].width
            h == Len(GRIDS["A"].data) \div w
        IN  \A x \in 0 .. w - 1, y \in 0 .. h - 1 :
                LET inner == 1 <= x /\ x <= w - 2 /\ 1 <= y /\ y <= h - 2
                IN  /\ ~SpawnOnCell("A", x, y) =>
                        (NodeOnCell("A", x, y) <=>
                            (/\ CellWalkable("A", x, y)
                             /\ inner
                             /\ PatternMatches(MaskBits("A", x, y))))
                    /\ (inner /\ CellWalkable("A", x, y)) =>
                        /\ MaskBits("A", x, y) = 1 .. 7 => NodeOnCell("A", x, y)
                        /\ MaskBits("A", x, y) = 0 .. 7 => ~NodeOnCell("A", x, y)

\* A completed prepare whose cell (1, 1) is walkable with the upper-left
\* neighbour as its only non-walkable one, and has a waypoint.
C13_Witness ==
    /\ pc = "done"
    /\ Prepared("A")
    /\ CellWalkable("A", 1, 1)
    /\ MaskBits("A", 1, 1) = 1 .. 7
    /\ NodeOnCell("A", 1, 1)

=============================================================================
